---- MODULE Spec2Model ----
(***************************************************************************)
(* Crypto-Journal (src/index.tsx): the App component as a state machine.   *)
(*                                                                         *)
(* Time is counted in days: one unit is 24*60*60*1000 ms, so dayMs is 1    *)
(* and the four windows are 1, 3, 7 and 30 units.  Amounts are integers.   *)
(* JavaScript values that are not plain numbers or strings are tagged      *)
(* records (Num, NaN, Null; Str, JsNull, JsUndefined); text typed into an  *)
(* input is a sequence of one-character strings.                           *)
(***************************************************************************)
EXTENDS Integers, Sequences, FiniteSets, TLC

VARIABLES
    pc,          \* "mounted": first render done, mount effects pending;
                 \* "loading": setTrades(saved) queued, re-render pending;
                 \* "ready":   no render or effect pending
    now,         \* Date.now()
    trades,      \* useState<Trade[]>
    form,        \* useState form record
    isAnalyzing, \* useState(false)
    aiCritique,  \* useState<string | null>(null)
    stats,       \* the value useMemo holds
    storage,     \* localStorage slot 'crypto_trades_v1'
    queued,      \* the state update setTrades(...) queued by the load effect
    inflight,    \* generateContent promises not yet settled
    unhandled,   \* runAiAudit promises that rejected
    nextId,      \* ids handed out by generateId so far
    slot0,       \* history: what the slot held when the page loaded
    lastOp       \* history: the handler or callback that ran last

vars == <<pc, now, trades, form, isAnalyzing, aiCritique, stats, storage,
          queued, inflight, unhandled, nextId, slot0, lastOp>>

\* ------------------------------------------------------------------ bounds

Now0 == 40          \* the clock at page load
MaxTicks == 1       \* days that pass while the page is open
MaxAdds == 1        \* trades logged while the page is open
MaxInflight == 2    \* outstanding requests the model can represent
StatsMaxLen == 2    \* collection length in the Stats Engine check

\* ------------------------------------------------------- JavaScript values

Num(n) == [t |-> "num", v |-> n]
NaN == [t |-> "NaN", v |-> 0]
Null == [t |-> "null", v |-> 0]

ToNumber(x) == IF x.t = "null" THEN Num(0) ELSE x

\* a >= b: false when either side is NaN
JsGE(a, b) ==
    LET x == ToNumber(a)
        y == ToNumber(b)
    IN  x.t = "num" /\ y.t = "num" /\ x.v >= y.v

JsAdd(a, b) ==
    LET x == ToNumber(a)
        y == ToNumber(b)
    IN  IF x.t = "num" /\ y.t = "num" THEN Num(x.v + y.v) ELSE NaN

JsNeg(a) ==
    LET x == ToNumber(a)
    IN  IF x.t = "num" THEN Num(0 - x.v) ELSE NaN

Str(s) == [t |-> "string", s |-> s]
JsNull == [t |-> "null", s |-> ""]
JsUndefined == [t |-> "undefined", s |-> ""]
Truthy(x) == x.t = "string" /\ x.s # ""

\* ------------------------------------------------------------ text inputs

Digits == {"0", "1", "2", "3", "4", "5", "6", "7", "8", "9"}

DigitVal(c) ==
    CASE c = "0" -> 0 [] c = "1" -> 1 [] c = "2" -> 2 [] c = "3" -> 3
      [] c = "4" -> 4 [] c = "5" -> 5 [] c = "6" -> 6 [] c = "7" -> 7
      [] c = "8" -> 8 [] c = "9" -> 9

\* the longest run of digits s starts with, as (value, length)
RECURSIVE DigitRun(_, _, _)
DigitRun(s, i, acc) ==
    IF i <= Len(s) /\ s[i] \in Digits
    THEN DigitRun(s, i + 1, 10 * acc + DigitVal(s[i]))
    ELSE <<acc, i - 1>>

\* parseFloat: an optional sign, then digits; anything after them is ignored;
\* NaN when no digit is found
parseFloat(s) ==
    LET signed == Len(s) > 0 /\ s[1] \in {"-", "+"}
        first == IF signed THEN 2 ELSE 1
        run == DigitRun(s, first, 0)
    IN  IF run[2] < first THEN NaN
        ELSE IF signed /\ s[1] = "-" THEN Num(0 - run[1]) ELSE Num(run[1])

\* <input type="number">: the value the element reports is what was typed when
\* that is a valid floating-point number ("-"? digits), and "" otherwise
NumberInputValue(raw) ==
    LET first == IF Len(raw) > 0 /\ raw[1] = "-" THEN 2 ELSE 1
        run == DigitRun(raw, first, 0)
    IN  IF run[2] >= first /\ run[2] = Len(raw) THEN raw ELSE <<>>

toUpperCase(s) ==
    CASE s = "btc" -> "BTC" [] s = "eth" -> "ETH" [] OTHER -> s

\* new Date().toISOString().slice(0, 16): the datetime-local text of an instant
toISOString(t) == <<t>>

\* new Date(text).getTime(): NaN for the empty (or any invalid) text
getTime(text) == IF Len(text) = 1 THEN Num(text[1]) ELSE NaN

\* -------------------------------------------------------------------- JSON

\* JSON.stringify writes NaN as null
JsonNumber(x) == IF x.t = "num" THEN x ELSE Null

JSONstringify(ts) ==
    [kind |-> "string",
     json |-> [i \in 1..Len(ts) |->
                 [ts[i] EXCEPT !.timestamp = JsonNumber(@),
                               !.amount = JsonNumber(@),
                               !.rrr = JsonNumber(@)]]]

JSONparse(text) == text.json

\* localStorage.getItem of a key that was never set
Absent == [kind |-> "null", json |-> <<>>]

\* ------------------------------------------------------------ Stats Engine

dayMs == 1

signed(t) == IF t.resultType = "gain" THEN t.amount ELSE JsNeg(t.amount)

RECURSIVE reduce(_, _)
reduce(ts, acc) ==
    IF ts = <<>> THEN acc
    ELSE reduce(Tail(ts), JsAdd(acc, signed(Head(ts))))

\* the filter with > in place of >=
inWindow_strict(t, at, sinceMs) ==
    LET x == ToNumber(t.timestamp)
    IN  x.t = "num" /\ x.v > at - sinceMs

inWindow(t, at, sinceMs) == JsGE(t.timestamp, Num(at - sinceMs))

calc(ts, at, sinceMs) ==
    LET keep(t) == inWindow(t, at, sinceMs)
    IN  reduce(SelectSeq(ts, keep), Num(0))

Stats(ts, at) ==
    [daily |-> calc(ts, at, dayMs),
     threeDay |-> calc(ts, at, dayMs * 3),
     weekly |-> calc(ts, at, dayMs * 7),
     monthly |-> calc(ts, at, dayMs * 30),
     allTime |-> reduce(ts, Num(0))]

\* -------------------------------------------------------------- the form

formDefaults(at) ==
    [pair |-> "", time |-> toISOString(at), resultType |-> "gain",
     amount |-> <<>>, rrr |-> <<>>, reason |-> ""]

PairTexts == {"", "btc"}
RawAmounts == {<<>>, <<"5">>, <<"-", "5">>, <<"x">>}

\* ------------------------------------------------------ state at page load

\* a trade an earlier session logged and saved
StoredTrade ==
    [id |-> 0, pair |-> "BTC", timestamp |-> Num(Now0 - 1),
     resultType |-> "loss", amount |-> Num(5), rrr |-> Num(0), reason |-> ""]

\* what the slot can hold when the page loads: nothing, or what an earlier
\* session wrote
StoredSlots ==
    {Absent, JSONstringify(<<>>), JSONstringify(<<StoredTrade>>)}

NoUpdate == [set |-> FALSE, val |-> <<>>]

\* the state after the first render: useState initial values, useMemo computed
Init ==
    /\ pc = "mounted"
    /\ now = Now0
    /\ trades = <<>>
    /\ form = formDefaults(Now0)
    /\ isAnalyzing = FALSE
    /\ aiCritique = JsNull
    /\ stats = Stats(<<>>, Now0)
    /\ storage \in StoredSlots
    /\ slot0 = storage
    /\ queued = NoUpdate
    /\ inflight = 0
    /\ unhandled = 0
    /\ nextId = 1
    /\ lastOp = "render"

\* ----------------------------------------------------------------- effects

\* "Load data": if (saved) setTrades(JSON.parse(saved))
loadEffect(saved) ==
    IF saved.kind = "string" THEN [set |-> TRUE, val |-> JSONparse(saved)]
    ELSE NoUpdate

\* the save effect with an empty dependency list: it keeps writing the first
\* render's collection
saveEffect_firstRender(ts) == JSONstringify(<<>>)

\* "Save data": localStorage.setItem(key, JSON.stringify(trades)), run after
\* every render in which trades changed
saveEffect(ts) == JSONstringify(ts)

\* both effects after the first render, in declaration order
MountEffects ==
    /\ pc = "mounted"
    /\ queued' = loadEffect(storage)
    /\ storage' = saveEffect(trades)
    /\ pc' = IF queued'.set THEN "loading" ELSE "ready"
    /\ lastOp' = "mountEffects"
    /\ UNCHANGED <<now, trades, form, isAnalyzing, aiCritique, stats,
                   inflight, nextId, slot0, unhandled>>

\* the render the queued setTrades causes: useMemo recomputes, then the save
\* effect runs again
CommitLoad ==
    /\ pc = "loading"
    /\ trades' = queued.val
    /\ queued' = NoUpdate
    /\ stats' = Stats(trades', now)
    /\ storage' = saveEffect(trades')
    /\ pc' = "ready"
    /\ lastOp' = "commitLoad"
    /\ UNCHANGED <<now, form, isAnalyzing, aiCritique, inflight, nextId, slot0,
                   unhandled>>

\* -------------------------------------------------------------- form edits
\* The onChange handlers of pair, resultType and amount.  Those of time, rrr
\* and reason are left out: time stays the instant the form was last reset,
\* rrr and reason keep their defaults.

SetField(f) ==
    /\ pc = "ready"
    /\ form' = f
    /\ lastOp' = "edit"
    /\ UNCHANGED <<pc, now, trades, isAnalyzing, aiCritique, stats, storage,
                   queued, inflight, nextId, slot0, unhandled>>

SetPair == \E p \in PairTexts : SetField([form EXCEPT !.pair = p])

SetResultType ==
    \E r \in {"gain", "loss"} : SetField([form EXCEPT !.resultType = r])

SetAmount ==
    \E raw \in RawAmounts :
        SetField([form EXCEPT !.amount = NumberInputValue(raw)])

\* ---------------------------------------------------------- handleAddTrade
\* A handler that calls setTrades is one action with the render it causes
\* (useMemo recomputes for the new array) and the save effect of that render:
\* React runs them before it dispatches the next event.

generateId(n) == n

\* x || 0
OrZero(x) == IF x.t = "num" /\ x.v # 0 THEN x ELSE Num(0)

\* the guard without its amount test
submitRejected_pairOnly(f) == f.pair = ""

\* if (!form.pair || !form.amount) return;
submitRejected(f) == f.pair = "" \/ f.amount = <<>>

newTrade(f, id) ==
    [id |-> id,
     pair |-> toUpperCase(f.pair),
     timestamp |-> getTime(f.time),
     resultType |-> f.resultType,
     amount |-> parseFloat(f.amount),
     rrr |-> OrZero(parseFloat(f.rrr)),
     reason |-> f.reason]

handleAddTrade ==
    /\ pc = "ready"
    /\ lastOp' = "submit"
    /\ IF submitRejected(form)
       THEN UNCHANGED <<trades, form, nextId, stats, storage>>
       ELSE /\ nextId <= MaxAdds
            /\ trades' = <<newTrade(form, generateId(nextId))>> \o trades
            /\ form' = formDefaults(now)
            /\ nextId' = nextId + 1
            /\ stats' = Stats(trades', now)
            /\ storage' = saveEffect(trades')
    /\ UNCHANGED <<pc, now, isAnalyzing, aiCritique, queued, inflight, slot0,
                   unhandled>>

\* --------------------------------------------------------- the del button

removeId(ts, id) ==
    LET keep(t) == t.id # id
    IN  SelectSeq(ts, keep)

DeleteTrade ==
    /\ pc = "ready"
    /\ \E i \in 1..Len(trades) :
          /\ trades' = removeId(trades, trades[i].id)
          /\ stats' = Stats(trades', now)
          /\ storage' = saveEffect(trades')
    /\ lastOp' = "delete"
    /\ UNCHANGED <<pc, now, form, isAnalyzing, aiCritique, queued, inflight,
                   nextId, slot0, unhandled>>

\* -------------------------------------------------------------- AI audit

Fallback == Str("Failed to analyze trades. Check API connectivity.")

\* the button disabled on an empty collection only
auditDisabled_emptyOnly == Len(trades) = 0

\* disabled={isAnalyzing || trades.length === 0}
auditDisabled == isAnalyzing \/ Len(trades) = 0

\* what leaves runAiAudit as a rejection of its promise: catch (e) handles
\* every exception and rethrows none
escapes(o) == 0

\* the body of runAiAudit after its guard, up to the await.  Either the
\* request is sent and the function suspends with isAnalyzing set, or
\* something before the await throws (the client constructor), and catch
\* and finally run in the same turn.
startAudit ==
    \/ /\ inflight < MaxInflight
       /\ isAnalyzing' = TRUE
       /\ inflight' = inflight + 1
       /\ lastOp' = "auditSent"
       /\ UNCHANGED <<aiCritique, unhandled>>
    \/ /\ aiCritique' = Fallback
       /\ isAnalyzing' = FALSE
       /\ unhandled' = unhandled + escapes("reject")
       /\ lastOp' = "auditThrew"
       /\ UNCHANGED inflight

\* if (trades.length === 0) return;
runAiAudit ==
    IF Len(trades) = 0
    THEN /\ lastOp' = "auditNoop"
         /\ UNCHANGED <<isAnalyzing, aiCritique, inflight, unhandled>>
    ELSE startAudit

\* the button never disabled and the handler without its guard
ClickAudit_unguarded ==
    /\ pc = "ready"
    /\ startAudit
    /\ UNCHANGED <<pc, now, trades, form, stats, storage, queued, nextId,
                   slot0>>

\* a click on the audit button; a disabled button dispatches no click
ClickAudit ==
    /\ pc = "ready"
    /\ IF auditDisabled
       THEN /\ lastOp' = "auditIgnored"
            /\ UNCHANGED <<isAnalyzing, aiCritique, inflight, unhandled>>
       ELSE runAiAudit
    /\ UNCHANGED <<pc, now, trades, form, stats, storage, queued, nextId,
                   slot0>>

\* what the awaited generateContent call can do: resolve with a response
\* whose text is a string, resolve with one that has no text, or reject
Outcomes == {"text", "noText", "reject"}

\* catch showing the error's own message
settledCritique_message(o) ==
    CASE o = "text" -> Str("advice")
      [] o = "noText" -> JsUndefined
      [] o = "reject" -> Str("fetch failed")

\* the critique the continuation sets: response.text, or the fallback in catch
settledCritique(o) ==
    CASE o = "text" -> Str("advice")
      [] o = "noText" -> JsUndefined
      [] o = "reject" -> Fallback

\* the flag reset at the end of try instead of in finally
settledAnalyzing_tryOnly(o) == o = "reject"

\* finally { setIsAnalyzing(false) }
settledAnalyzing(o) == FALSE

Settle ==
    /\ pc = "ready"
    /\ inflight > 0
    /\ \E o \in Outcomes :
          /\ aiCritique' = settledCritique(o)
          /\ isAnalyzing' = settledAnalyzing(o)
          /\ unhandled' = unhandled + escapes(o)
          /\ lastOp' = IF o = "reject" THEN "settleFail" ELSE "settleOk"
    /\ inflight' = inflight - 1
    /\ UNCHANGED <<pc, now, trades, form, stats, storage, queued, nextId,
                   slot0>>

\* a clear that also drops the outstanding request
ClearCritique_cancels ==
    /\ pc = "ready"
    /\ Truthy(aiCritique)
    /\ aiCritique' = JsNull
    /\ isAnalyzing' = FALSE
    /\ inflight' = 0
    /\ lastOp' = "clear"
    /\ UNCHANGED <<pc, now, trades, form, stats, storage, queued, nextId,
                   slot0, unhandled>>

\* the Clear button, rendered only while aiCritique is truthy
ClearCritique ==
    /\ pc = "ready"
    /\ Truthy(aiCritique)
    /\ aiCritique' = JsNull
    /\ lastOp' = "clear"
    /\ UNCHANGED <<pc, now, trades, form, isAnalyzing, stats, storage,
                   queued, inflight, nextId, slot0, unhandled>>

\* -------------------------------------------------------------------- time

Tick ==
    /\ now < Now0 + MaxTicks
    /\ now' = now + 1
    /\ lastOp' = "tick"
    /\ UNCHANGED <<pc, trades, form, isAnalyzing, aiCritique, stats, storage,
                   queued, inflight, nextId, slot0, unhandled>>

Next ==
    \/ MountEffects
    \/ CommitLoad
    \/ SetPair
    \/ SetResultType
    \/ SetAmount
    \/ handleAddTrade
    \/ DeleteTrade
    \/ ClickAudit
    \/ Settle
    \/ ClearCritique
    \/ Tick

Spec == Init /\ [][Next]_vars

\* the awaited generateContent call settles
FairSpec == Spec /\ WF_vars(Settle)

\* ------------------------------------------- the Stats Engine on its own

\* timestamps around every window edge of a clock at Now0, one in the future,
\* an invalid date (NaN) and an invalid date read back from the slot (null)
StatsOffsets == {1, 0, -1, -2, -3, -4, -7, -8, -30, -31}

StatsTimestamps == {Num(Now0 + d) : d \in StatsOffsets} \cup {NaN, Null}

StatsTrades ==
    [id : {0}, pair : {"BTC"}, timestamp : StatsTimestamps,
     resultType : {"gain", "loss"}, amount : {Num(5), Num(3)},
     rrr : {Num(0)}, reason : {""}]

StatsCollections == UNION {[1..n -> StatsTrades] : n \in 0..StatsMaxLen}

StatsInit ==
    /\ pc = "ready"
    /\ now = Now0
    /\ trades \in StatsCollections
    /\ form = formDefaults(Now0)
    /\ isAnalyzing = FALSE
    /\ aiCritique = JsNull
    /\ stats = Stats(<<>>, Now0)
    /\ storage = JSONstringify(trades)
    /\ slot0 = storage
    /\ queued = NoUpdate
    /\ inflight = 0
    /\ unhandled = 0
    /\ nextId = 1
    /\ lastOp = "render"

\* the useMemo callback, run for the collection and the clock of the state
Recompute ==
    /\ lastOp = "render"
    /\ stats' = Stats(trades, now)
    /\ lastOp' = "useMemo"
    /\ UNCHANGED <<pc, now, trades, form, isAnalyzing, aiCritique, storage,
                   queued, inflight, nextId, slot0, unhandled>>

StatsNext == Recompute

SpecStats == StatsInit /\ [][StatsNext]_vars

\* ------------------------------------------------------------------ claims

contribution(t) == IF t.resultType = "gain" THEN t.amount.v ELSE 0 - t.amount.v

RECURSIVE SumOver(_, _)
SumOver(ts, I) ==
    IF I = {} THEN 0
    ELSE LET i == CHOOSE j \in I : TRUE
         IN  contribution(ts[i]) + SumOver(ts, I \ {i})

\* the instant a stored timestamp denotes; null reads as 0, NaN as none
IsInstant(x) == x.t \in {"num", "null"}
Instant(x) == IF x.t = "num" THEN x.v ELSE 0

Between(ts, lo, hi) ==
    {i \in 1..Len(ts) : /\ IsInstant(ts[i].timestamp)
                        /\ lo <= Instant(ts[i].timestamp)
                        /\ Instant(ts[i].timestamp) <= hi}

AtOrAfter(ts, lo) ==
    {i \in 1..Len(ts) : /\ IsInstant(ts[i].timestamp)
                        /\ lo <= Instant(ts[i].timestamp)}

WindowDays == [daily |-> 1, threeDay |-> 3, weekly |-> 7, monthly |-> 30]

\* C1 as stated: each windowed stat is the sum of the signed contributions of
\* exactly the trades whose timestamp lies in the closed interval
\* [now - L, now], L = 1, 3, 7, 30 days.
C1_ClosedInterval ==
    lastOp = "useMemo" =>
        \A w \in DOMAIN WindowDays :
            stats[w] = Num(SumOver(trades,
                           Between(trades, now - WindowDays[w] * dayMs, now)))

\* C1 amended: each windowed stat is the sum of the signed contributions of
\* exactly the trades whose timestamp is at or after now - L; there is no
\* upper bound, so a trade dated after now counts in every window.
C1_LowerBoundOnly ==
    lastOp = "useMemo" =>
        \A w \in DOMAIN WindowDays :
            stats[w] = Num(SumOver(trades,
                           AtOrAfter(trades, now - WindowDays[w] * dayMs)))

\* a computed value whose daily window counts both a trade exactly on its
\* lower edge and a trade dated after now
C1_Witness ==
    /\ lastOp = "useMemo"
    /\ \E i \in 1..Len(trades) : trades[i].timestamp = Num(now - dayMs)
    /\ \E i \in 1..Len(trades) : trades[i].timestamp = Num(now + 1)
    /\ stats.daily = Num(8)

\* C2 as stated: in every state with no render pending, the stats shown are
\* the Stats Engine's result for the current collection at the current time.
C2_StatsCurrent == pc = "ready" => stats = Stats(trades, now)

\* C3 as stated: every trade in the collection has amount >= 0.
C3_AmountNonNegative ==
    \A i \in 1..Len(trades) :
        trades[i].amount.t = "num" /\ trades[i].amount.v >= 0

\* C4: a submit with pair empty, or amount empty or not parsable as a number,
\* changes neither the collection, nor the slot, nor the form, and creates no
\* trade.
C4_RejectedSubmit ==
    [][(/\ lastOp' = "submit"
        /\ \/ form.pair = ""
           \/ form.amount = <<>>
           \/ parseFloat(form.amount) = NaN)
       => UNCHANGED <<trades, storage, form, nextId, stats>>]_vars

\* a submit was the last thing to happen, with pair empty and an amount typed
\* in (an accepted submit would have emptied the amount), and nothing logged
C4_Witness ==
    /\ lastOp = "submit"
    /\ form.pair = ""
    /\ form.amount = <<"5">>
    /\ nextId = 1
    /\ trades = <<>>

AuditOps == {"auditNoop", "auditIgnored", "auditSent", "auditThrew"}

\* C6: running the audit while the collection is empty sends no request and
\* leaves isAnalyzing, the critique and the collection unchanged.
C6_EmptyAuditNoop ==
    [][(Len(trades) = 0 /\ lastOp' \in AuditOps)
       => UNCHANGED <<isAnalyzing, aiCritique, trades, inflight, storage>>]_vars

\* the audit trigger was used on an empty collection; the critique is still null
C6_Witness ==
    /\ lastOp = "auditIgnored"
    /\ pc = "ready"
    /\ Len(trades) = 0
    /\ aiCritique = JsNull
    /\ inflight = 0

\* C7: isAnalyzing is true exactly while an audit request is in flight, and,
\* the service call settling eventually, every started audit is followed by
\* isAnalyzing = false.
C7_AnalyzingWhileInFlight ==
    /\ [](isAnalyzing <=> inflight > 0)
    /\ (isAnalyzing ~> ~isAnalyzing)

\* a request that was in flight has settled and the flag is down again
C7_Witness ==
    /\ lastOp \in {"settleOk", "settleFail"}
    /\ ~isAnalyzing
    /\ inflight = 0

\* what the slot held at page load, as a collection
Stored0 == IF slot0 = Absent THEN <<>> ELSE JSONparse(slot0)

\* C8: with no render or effect pending the slot holds the serialized current
\* collection; once startup is over, the collection is the stored one and the
\* slot still holds it.
C8_SlotMirrorsCollection ==
    /\ pc = "ready" => storage = JSONstringify(trades)
    /\ (pc = "ready" /\ lastOp \in {"mountEffects", "commitLoad"}) =>
           /\ trades = Stored0
           /\ storage = JSONstringify(Stored0)

\* startup over a slot that held a trade: it is in memory and still stored
C8_Witness ==
    /\ lastOp = "commitLoad"
    /\ pc = "ready"
    /\ Len(trades) = 1
    /\ storage = slot0

\* C9: at most one audit request is in flight, and a trigger while
\* isAnalyzing is true sends nothing.
C9_OneInFlight ==
    /\ [](inflight <= 1)
    /\ [][(isAnalyzing /\ lastOp' \in AuditOps) => inflight' = inflight]_vars

\* the trigger was used while a request was outstanding
C9_Witness ==
    /\ lastOp = "auditIgnored"
    /\ isAnalyzing
    /\ inflight = 1

\* C10: a clear while a request is outstanding sets the critique to null and
\* leaves the request and isAnalyzing alone; when a request settles, its
\* result (the response's text, or the fallback) becomes the critique,
\* whatever the critique was.
C10_ClearThenOverwrite ==
    [][/\ (lastOp' = "clear" /\ inflight > 0) =>
              /\ aiCritique' = JsNull
              /\ inflight' = inflight
              /\ isAnalyzing' = isAnalyzing
       /\ (lastOp' = "settleFail" /\ inflight > 0) => aiCritique' = Fallback
       /\ (lastOp' = "settleOk" /\ inflight > 0) =>
              aiCritique' \in {Str("advice"), JsUndefined}]_vars

\* the critique was cleared while a request was outstanding
C10_Witness ==
    /\ lastOp = "clear"
    /\ inflight = 1
    /\ isAnalyzing
    /\ aiCritique = JsNull

====
